---- MODULE Spec2Model ----
(***************************************************************************)
(* Model of package slice of marguerite/util (src/dir/dir.go, lines        *)
(* 191-533): the reflection-based sequence toolkit Contains, Remove,       *)
(* Unique, Intersect, Concat, Replace and Flatten.                         *)
(*                                                                         *)
(* A Go value is a record [shape, k, a, b, elems]:                         *)
(*   shape "scalar": a value of kind k (Int, String, Struct); a and b are  *)
(*                   its payload.  For a Struct, a is the exported field A *)
(*                   and b an unexported field.  For a String, b = 0 is    *)
(*                   the plain string number a, b = 1 is the text          *)
(*                   {"A":a}, the JSON encoding of a struct with A = a.    *)
(*   shape "slice" / "array": k is the static element kind (Int, String,   *)
(*                   Struct, Interface, Slice), elems the elements.        *)
(*   shape "nil":    the nil interface value.                              *)
(* An argument of type interface{} is a record [rv, kind, x]: rv is TRUE   *)
(* when the interface holds a reflect.Value (as in the recursive calls of  *)
(* Contains and Remove), kind is what reflect.Value.Kind() reports.        *)
(***************************************************************************)
EXTENDS Integers, Sequences, FiniteSets, TLC

VARIABLES s, pre, op, ptr, a1, a2, ret, found, out

vars == <<s, pre, op, ptr, a1, a2, ret, found, out>>

\* Longest caller sequence explored.
MaxLen == 3
\* Longest needle / addend / second sequence explored.
MaxArg == 2

---------------------------------------------------------------------------
\* Values

Scalar(k, a, b) == [shape |-> "scalar", k |-> k, a |-> a, b |-> b, elems |-> <<>>]
Slice(ek, es) == [shape |-> "slice", k |-> ek, a |-> 0, b |-> 0, elems |-> es]
Array(ek, es) == [shape |-> "array", k |-> ek, a |-> 0, b |-> 0, elems |-> es]
Nil == [shape |-> "nil", k |-> "Invalid", a |-> 0, b |-> 0, elems |-> <<>>]

\* var ( ErrNotSlice, ErrNotPointer, ErrNotSameType )
ErrNil == "nil"
ErrNotSlice == "ErrNotSlice"
ErrNotPointer == "ErrNotPointer"
ErrNotSameType == "ErrNotSameType"
\* a run-time panic of the reflect package or of the map implementation
Panic == "panic"

\* reflect.ValueOf(x).Kind()
DynKind(x) ==
  CASE x.shape = "scalar" -> x.k
    [] x.shape = "slice" -> "Slice"
    [] x.shape = "array" -> "Array"
    [] OTHER -> "Invalid"

\* an interface{} argument holding the plain value x
Iface(x) == [rv |-> FALSE, kind |-> DynKind(x), x |-> x]

\* v.Index(i), passed on as an interface{}: a reflect.Value whose Kind() is
\* the static element kind of v
Index(v, i) == [rv |-> TRUE, kind |-> v.k, x |-> v.elems[i]]

\* reflect.ValueOf(src).Kind(): a reflect.Value is itself a struct
ValueOfKind(src) == IF src.rv THEN "Struct" ELSE src.kind

\* reflect.DeepEqual(x.Interface(), y.Interface())
DeepEqual(x, y) == x = y

isSlice(kind) == kind = "Slice"

---------------------------------------------------------------------------
\* Contains

RECURSIVE Contains(_, _)
RECURSIVE ContainsAny(_, _, _)
RECURSIVE ContainsOne(_, _, _)

\* lines 236-240: linear scan for a single element
ContainsOne(sv, ev, i) ==
  IF i > Len(sv.elems) THEN [ok |-> FALSE, err |-> ErrNil]
  ELSE IF ev.kind = "Invalid" THEN [ok |-> FALSE, err |-> Panic]
  ELSE IF DeepEqual(sv.elems[i], ev.x) THEN [ok |-> TRUE, err |-> ErrNil]
  ELSE ContainsOne(sv, ev, i + 1)

\* lines 226-234: the needle is a slice or an array
ContainsAny(src, element, i) ==
  IF i > Len(src.x.elems) THEN [ok |-> FALSE, err |-> ErrNil]
  ELSE LET r == Contains(element, Index(src.x, i))
       IN IF r.err # ErrNil THEN [ok |-> FALSE, err |-> r.err]
          ELSE IF r.ok THEN [ok |-> TRUE, err |-> ErrNil]
          ELSE ContainsAny(src, element, i + 1)

Contains(src, element) ==
  IF ~isSlice(ValueOfKind(src)) THEN [ok |-> FALSE, err |-> ErrNotSlice]
  ELSE IF element.kind \in {"Slice", "Array"} THEN ContainsAny(src, element, 1)
  ELSE ContainsOne(src.x, element, 1)

---------------------------------------------------------------------------
\* Support routines

\* the zero value reflect.MakeSlice fills a new slice with
Zero(k) ==
  CASE k = "Interface" -> Nil
    [] k = "Slice" -> Slice("Int", <<>>)
    [] OTHER -> Scalar(k, 0, 0)

RECURSIVE removeLoop(_, _, _, _, _)
\* lines 519-531: copy v[i] to tmp[i-n] unless i is listed in idx
removeLoop(idx, v, tmp, i, n) ==
  IF i > Len(v.elems) THEN tmp
  ELSE IF \E j \in 1..Len(idx) : idx[j] = i
       THEN removeLoop(idx, v, tmp, i + 1, n + 1)
       ELSE removeLoop(idx, v, [tmp EXCEPT ![i - n] = v.elems[i]], i + 1, n)

removeFromSlice(idx, v) ==
  Slice(v.k, removeLoop(idx, v,
                        [j \in 1..(Len(v.elems) - Len(idx)) |-> Zero(v.k)], 1, 0))

\* json.Marshal of a struct: the exported field only, as text
JsonMarshal(x) == Scalar("String", x.a, 1)

\* lines 498-507
genKey(v) == IF v.kind = "Struct" THEN JsonMarshal(v.x) ELSE v.x

\* a map[interface{}] key must be hashable: a slice held in the key panics
Hashable(v) == v.kind = "Struct" \/ v.x.shape # "slice"

RECURSIVE keysFrom(_, _, _)
\* m[genKey(v.Index(i))] = struct{}{} for i = from..Len: the key set, or
\* Panic when a key cannot be hashed
keysFrom(v, i, m) ==
  IF i > Len(v.elems) THEN [m |-> m, err |-> ErrNil]
  ELSE IF ~Hashable(Index(v, i)) THEN [m |-> m, err |-> Panic]
  ELSE keysFrom(v, i + 1, m \cup {genKey(Index(v, i))})

---------------------------------------------------------------------------
\* Remove

RECURSIVE matchIdx(_, _, _, _)
\* lines 312-317: the indices of sv that DeepEqual the needle
matchIdx(sv, ev, i, idx) ==
  IF i > Len(sv.elems) THEN idx
  ELSE IF DeepEqual(sv.elems[i], ev.x)
       THEN matchIdx(sv, ev, i + 1, Append(idx, i))
       ELSE matchIdx(sv, ev, i + 1, idx)

RECURSIVE RemoveByDynamicKind(_, _, _)
RECURSIVE RemoveEachByDynamicKind(_, _, _)

RemoveEachByDynamicKind(cur, element, i) ==
  IF i > Len(element.x.elems) THEN [s |-> cur, err |-> ErrNil]
  ELSE LET r == RemoveByDynamicKind(TRUE, cur, Index(element.x, i))
       IN IF r.err # ErrNil THEN r
          ELSE RemoveEachByDynamicKind(r.s, element, i + 1)

\* Remove, but comparing the kind of the value held in each needle element
\* (ev.Elem().Kind()) instead of the kind of the needle's element type
RemoveByDynamicKind(isPtr, cur, element) ==
  IF ~isPtr THEN [s |-> cur, err |-> ErrNotPointer]
  ELSE IF ~isSlice(DynKind(cur)) THEN [s |-> cur, err |-> ErrNotSlice]
  ELSE IF isSlice(DynKind(element.x)) THEN RemoveEachByDynamicKind(cur, element, 1)
  ELSE IF cur.k = DynKind(element.x)
       THEN [s |-> removeFromSlice(matchIdx(cur, element, 1, <<>>), cur),
             err |-> ErrNil]
       ELSE [s |-> cur, err |-> ErrNotSameType]

RECURSIVE Remove(_, _, _)
RECURSIVE RemoveEach(_, _, _)

\* lines 304-309: one recursive Remove(src, ev.Index(i)) per needle element
RemoveEach(cur, element, i) ==
  IF i > Len(element.x.elems) THEN [s |-> cur, err |-> ErrNil]
  ELSE LET r == Remove(TRUE, cur, Index(element.x, i))
       IN IF r.err # ErrNil THEN r ELSE RemoveEach(r.s, element, i + 1)

\* isPtr: src is a pointer to the caller's variable, whose value is cur
Remove(isPtr, cur, element) ==
  IF ~isPtr THEN [s |-> cur, err |-> ErrNotPointer]
  ELSE IF ~isSlice(DynKind(cur)) THEN [s |-> cur, err |-> ErrNotSlice]
  ELSE IF isSlice(element.kind) THEN RemoveEach(cur, element, 1)
  ELSE IF cur.k = element.kind
       THEN [s |-> removeFromSlice(matchIdx(cur, element, 1, <<>>), cur),
             err |-> ErrNil]
       ELSE [s |-> cur, err |-> ErrNotSameType]

---------------------------------------------------------------------------
\* Unique

RECURSIVE uniqueIdxNoRecord(_, _, _, _)
\* uniqueIdx without the else branch m[k] = struct{}{}: no key is recorded
uniqueIdxNoRecord(sv, i, m, idx) ==
  IF i > Len(sv.elems) THEN [idx |-> idx, err |-> ErrNil]
  ELSE IF ~Hashable(Index(sv, i)) THEN [idx |-> idx, err |-> Panic]
  ELSE LET k == genKey(Index(sv, i))
       IN IF k \in m THEN uniqueIdxNoRecord(sv, i + 1, m, Append(idx, i))
          ELSE uniqueIdxNoRecord(sv, i + 1, m, idx)

RECURSIVE uniqueIdx(_, _, _, _)
\* lines 343-350: later occurrences of a key are listed for removal
uniqueIdx(sv, i, m, idx) ==
  IF i > Len(sv.elems) THEN [idx |-> idx, err |-> ErrNil]
  ELSE IF ~Hashable(Index(sv, i)) THEN [idx |-> idx, err |-> Panic]
  ELSE LET k == genKey(Index(sv, i))
       IN IF k \in m THEN uniqueIdx(sv, i + 1, m, Append(idx, i))
          ELSE uniqueIdx(sv, i + 1, m \cup {k}, idx)

Unique(isPtr, cur) ==
  IF ~isPtr THEN [s |-> cur, err |-> ErrNotPointer]
  ELSE IF ~isSlice(DynKind(cur)) THEN [s |-> cur, err |-> ErrNotSlice]
  ELSE LET r == uniqueIdx(cur, 1, {}, <<>>)
       IN IF r.err # ErrNil THEN [s |-> cur, err |-> r.err]
          ELSE [s |-> removeFromSlice(r.idx, cur), err |-> ErrNil]

---------------------------------------------------------------------------
\* Intersect

RECURSIVE missingIdxNegated(_, _, _, _)
\* missingIdx with the test of line 383 written as ok instead of !ok
missingIdxNegated(sv, j, m, idx) ==
  IF j > Len(sv.elems) THEN [idx |-> idx, err |-> ErrNil]
  ELSE IF ~Hashable(Index(sv, j)) THEN [idx |-> idx, err |-> Panic]
  ELSE IF genKey(Index(sv, j)) \in m
       THEN missingIdxNegated(sv, j + 1, m, Append(idx, j))
       ELSE missingIdxNegated(sv, j + 1, m, idx)

RECURSIVE missingIdx(_, _, _, _)
\* lines 382-386: the indices of sv whose key is not in m
missingIdx(sv, j, m, idx) ==
  IF j > Len(sv.elems) THEN [idx |-> idx, err |-> ErrNil]
  ELSE IF ~Hashable(Index(sv, j)) THEN [idx |-> idx, err |-> Panic]
  ELSE IF genKey(Index(sv, j)) \notin m
       THEN missingIdx(sv, j + 1, m, Append(idx, j))
       ELSE missingIdx(sv, j + 1, m, idx)

Intersect(isPtr, cur, dst) ==
  IF ~isPtr THEN [s |-> cur, err |-> ErrNotPointer]
  ELSE IF ~isSlice(DynKind(cur)) \/ ~isSlice(DynKind(dst))
       THEN [s |-> cur, err |-> ErrNotSlice]
  ELSE LET km == keysFrom(dst, 1, {})
       IN IF km.err # ErrNil THEN [s |-> cur, err |-> km.err]
          ELSE LET r == missingIdx(cur, 1, km.m, <<>>)
               IN IF r.err # ErrNil THEN [s |-> cur, err |-> r.err]
                  ELSE [s |-> removeFromSlice(r.idx, cur), err |-> ErrNil]

---------------------------------------------------------------------------
\* Concat

\* reflect.Append(sv, x) panics unless x's type is assignable to sv's
\* element type
Assignable(from, to) == from = to \/ to = "Interface"

RECURSIVE appendNew(_, _, _, _)
\* lines 416-420: append the addend's elements whose key is not in m; m is
\* the key set of the destination as it was on entry
appendNew(cur, dv, j, m) ==
  IF j > Len(dv.elems) THEN [s |-> cur, err |-> ErrNil]
  ELSE IF ~Hashable(Index(dv, j)) THEN [s |-> cur, err |-> Panic]
  ELSE IF genKey(Index(dv, j)) \in m THEN appendNew(cur, dv, j + 1, m)
  ELSE IF ~Assignable(dv.k, cur.k) THEN [s |-> cur, err |-> Panic]
  ELSE appendNew(Slice(cur.k, Append(cur.elems, dv.elems[j])), dv, j + 1, m)

Concat(isPtr, cur, dst) ==
  IF ~isPtr THEN [s |-> cur, err |-> ErrNotPointer]
  ELSE IF ~isSlice(DynKind(cur)) THEN [s |-> cur, err |-> ErrNotSlice]
  ELSE LET km == keysFrom(cur, 1, {})
       IN IF km.err # ErrNil THEN [s |-> cur, err |-> km.err]
          ELSE IF DynKind(dst) = "Slice" THEN appendNew(cur, dst, 1, km.m)
          ELSE IF cur.k = DynKind(dst)
               THEN IF genKey(Iface(dst)) \notin km.m
                    THEN [s |-> Slice(cur.k, Append(cur.elems, dst)), err |-> ErrNil]
                    ELSE [s |-> cur, err |-> ErrNil]
               ELSE [s |-> cur, err |-> ErrNotSameType]

---------------------------------------------------------------------------
\* Replace

RECURSIVE replaceFirstOnly(_, _, _, _)
\* replaceLoop leaving the loop after the first replacement
replaceFirstOnly(cur, ov, nv, i) ==
  IF i > Len(cur.elems) THEN [s |-> cur, err |-> ErrNil]
  ELSE IF ov.kind = "Invalid" THEN [s |-> cur, err |-> Panic]
  ELSE IF DeepEqual(cur.elems[i], ov.x)
       THEN [s |-> [cur EXCEPT !.elems[i] = nv.x], err |-> ErrNil]
       ELSE replaceFirstOnly(cur, ov, nv, i + 1)

RECURSIVE replaceLoop(_, _, _, _)
\* lines 455-459
replaceLoop(cur, ov, nv, i) ==
  IF i > Len(cur.elems) THEN [s |-> cur, err |-> ErrNil]
  ELSE IF ov.kind = "Invalid" THEN [s |-> cur, err |-> Panic]
  ELSE IF DeepEqual(cur.elems[i], ov.x)
       THEN replaceLoop([cur EXCEPT !.elems[i] = nv.x], ov, nv, i + 1)
       ELSE replaceLoop(cur, ov, nv, i + 1)

\* sv.Type().Elem() is defined for these kinds only and panics for the rest
HasElemType(kind) == kind \in {"Slice", "Array", "Chan", "Map", "Ptr"}

Replace(isPtr, cur, old, new) ==
  IF ~isPtr THEN [s |-> cur, err |-> ErrNotPointer]
  ELSE IF ~HasElemType(DynKind(cur)) THEN [s |-> cur, err |-> Panic]
  ELSE IF cur.k # new.kind THEN [s |-> cur, err |-> ErrNotSameType]
  ELSE replaceLoop(cur, old, new, 1)

---------------------------------------------------------------------------
\* Flatten

RECURSIVE allSequences(_, _)
\* lines 470-478: FALSE at the first element that is no slice or array
allSequences(sv, i) ==
  IF i > Len(sv.elems) THEN TRUE
  ELSE IF Index(sv, i).kind \in {"Slice", "Array"} THEN allSequences(sv, i + 1)
  ELSE FALSE

RECURSIVE flattenCopy(_, _, _)
\* lines 480-489: the inner elements, outer then inner order
flattenCopy(sv, i, acc) ==
  IF i > Len(sv.elems) THEN acc
  ELSE flattenCopy(sv, i + 1, acc \o sv.elems[i].elems)

Flatten(slice) ==
  IF DynKind(slice) \in {"Slice", "Array"}
  THEN IF ~allSequences(slice, 1) THEN [out |-> slice, err |-> ErrNil]
       ELSE IF Len(slice.elems) = 0 \/ Len(slice.elems[1].elems) = 0
            THEN [out |-> Nil, err |-> Panic]
       ELSE [out |-> Slice(slice.elems[1].k, flattenCopy(slice, 1, <<>>)),
             err |-> ErrNil]
  ELSE [out |-> slice, err |-> ErrNil]

---------------------------------------------------------------------------
\* The values the caller works with

IntVals == {Scalar("Int", 1, 0), Scalar("Int", 2, 0)}
StringVals == {Scalar("String", 1, 0), Scalar("String", 1, 1)}
StructVals == {Scalar("Struct", 1, 0), Scalar("Struct", 1, 1), Scalar("Struct", 2, 0)}
InnerVals == {Slice("Int", <<>>), Slice("Int", <<Scalar("Int", 1, 0)>>)}
IfaceVals == {Scalar("Int", 1, 0), Scalar("String", 1, 0)}

ElemKinds == {"Int", "String", "Struct", "Interface", "Slice"}

ElemsOf(k) ==
  CASE k = "Int" -> IntVals
    [] k = "String" -> StringVals
    [] k = "Struct" -> StructVals
    [] k = "Interface" -> IfaceVals
    [] OTHER -> InnerVals

SeqsUpTo(S, n) == UNION {[1..m -> S] : m \in 0..n}

Slices(n) == UNION {{Slice(k, es) : es \in SeqsUpTo(ElemsOf(k), n)} : k \in ElemKinds}

Arrays(n) == {Array("Int", es) : es \in SeqsUpTo(IntVals, n) \ {<<>>}}

Scalars == IntVals \cup StringVals \cup StructVals

\* what the caller's variable may hold: a slice, or an int
CallerVars == Slices(MaxLen) \cup {Scalar("Int", 1, 0)}

\* what is passed as needle, addend or second sequence
Args == Slices(MaxArg) \cup Arrays(MaxArg) \cup Scalars \cup {Nil}

\* old and new values of Replace
Values == Scalars \cup InnerVals \cup {Nil}

\* how many values an addend can add to the destination
AddendLen(x) == IF x.shape = "slice" THEN Len(x.elems) ELSE 1

Mutating == {"Remove", "Unique", "Intersect", "Concat", "Replace"}

---------------------------------------------------------------------------
\* The caller: s is its variable; a call records what was passed (ptr: the
\* address of s rather than s itself; a1, a2), the value of s on entry
\* (pre) and what came back (ret, found, out).

Init ==
  /\ s \in CallerVars
  /\ pre = s
  /\ op = "idle"
  /\ ptr = FALSE
  /\ a1 = Nil
  /\ a2 = Nil
  /\ ret = ErrNil
  /\ found = FALSE
  /\ out = Nil

CallContains ==
  /\ op = "idle"
  /\ \E n \in Args :
       LET r == Contains(Iface(s), Iface(n))
       IN /\ op' = "Contains"
          /\ a1' = n
          /\ found' = r.ok
          /\ ret' = r.err
  /\ pre' = s
  /\ UNCHANGED <<s, ptr, a2, out>>

CallRemove ==
  /\ op = "idle"
  /\ \E p \in BOOLEAN, n \in Args :
       LET r == Remove(p, s, Iface(n))
       IN /\ op' = "Remove"
          /\ ptr' = p
          /\ a1' = n
          /\ s' = r.s
          /\ ret' = r.err
  /\ pre' = s
  /\ UNCHANGED <<a2, found, out>>

CallUnique ==
  /\ op = "idle"
  /\ \E p \in BOOLEAN :
       LET r == Unique(p, s)
       IN /\ op' = "Unique"
          /\ ptr' = p
          /\ s' = r.s
          /\ ret' = r.err
  /\ pre' = s
  /\ UNCHANGED <<a1, a2, found, out>>

CallIntersect ==
  /\ op = "idle"
  /\ \E p \in BOOLEAN, t \in Args :
       LET r == Intersect(p, s, t)
       IN /\ op' = "Intersect"
          /\ ptr' = p
          /\ a1' = t
          /\ s' = r.s
          /\ ret' = r.err
  /\ pre' = s
  /\ UNCHANGED <<a2, found, out>>

CallConcat ==
  /\ op = "idle"
  /\ \E p \in BOOLEAN, x \in Args :
       /\ Len(s.elems) + AddendLen(x) <= MaxLen
       /\ LET r == Concat(p, s, x)
          IN /\ op' = "Concat"
             /\ ptr' = p
             /\ a1' = x
             /\ s' = r.s
             /\ ret' = r.err
  /\ pre' = s
  /\ UNCHANGED <<a2, found, out>>

CallReplace ==
  /\ op = "idle"
  /\ \E p \in BOOLEAN, old \in Values, new \in Values :
       LET r == Replace(p, s, Iface(old), Iface(new))
       IN /\ op' = "Replace"
          /\ ptr' = p
          /\ a1' = old
          /\ a2' = new
          /\ s' = r.s
          /\ ret' = r.err
  /\ pre' = s
  /\ UNCHANGED <<found, out>>

CallFlatten ==
  /\ op = "idle"
  /\ LET r == Flatten(s)
     IN /\ op' = "Flatten"
        /\ out' = r.out
        /\ ret' = r.err
  /\ pre' = s
  /\ UNCHANGED <<s, ptr, a1, a2, found>>

\* the caller has looked at the results and goes on with its variable
Return ==
  /\ op # "idle"
  /\ op' = "idle"
  /\ pre' = s
  /\ ptr' = FALSE
  /\ a1' = Nil
  /\ a2' = Nil
  /\ ret' = ErrNil
  /\ found' = FALSE
  /\ out' = Nil
  /\ UNCHANGED s

Next ==
  \/ CallContains
  \/ CallRemove
  \/ CallUnique
  \/ CallIntersect
  \/ CallConcat
  \/ CallReplace
  \/ CallFlatten
  \/ Return

Spec == Init /\ [][Next]_vars

---------------------------------------------------------------------------
\* Vocabulary of the properties

Sentinels == {ErrNotSlice, ErrNotPointer, ErrNotSameType}

\* the equality key of the i-th element of the sequence v
KeyAt(v, i) == genKey(Index(v, i))

KeysOf(v) == {KeyAt(v, i) : i \in 1..Len(v.elems)}

CountKey(v, key) == Cardinality({i \in 1..Len(v.elems) : KeyAt(v, i) = key})

CountVal(v, x) == Cardinality({i \in 1..Len(v.elems) : v.elems[i] = x})

\* res is the subsequence of src at the positions I, in order
IsSubseqAt(res, src, I) ==
  /\ Len(res) = Cardinality(I)
  /\ \A i \in I : res[Cardinality({j \in I : j <= i})] = src[i]

IsSeq(x) == x.shape = "slice"

\* x is a non-empty sequence all of whose elements are sequences
IsSeqOfSeqs(x) ==
  /\ IsSeq(x)
  /\ Len(x.elems) > 0
  /\ \A i \in 1..Len(x.elems) : x.elems[i].shape \in {"slice", "array"}

\* the needle n hits the element e: n is e, or n is a sequence holding e
Hits(n, e) ==
  \/ e = n
  \/ n.shape \in {"slice", "array"} /\ \E j \in 1..Len(n.elems) : n.elems[j] = e

\* n is a single element of v's element kind, or a sequence of such elements
NeedleFor(v, n) == DynKind(n) = v.k \/ (IsSeq(n) /\ n.k = v.k)

---------------------------------------------------------------------------
\* C1: after Remove(&s, n) returns without error, for n an element of s's
\* element kind or a sequence of such elements, s is the original sequence
\* without the elements that equal n or an element of n, the others in
\* their order; a single value that occurred is no longer contained and the
\* length has dropped by its number of occurrences.
C1_RemoveDeletesAllMatches ==
  (op = "Remove" /\ ret = ErrNil /\ NeedleFor(pre, a1)) =>
    /\ IsSeq(s) /\ s.k = pre.k
    /\ IsSubseqAt(s.elems, pre.elems,
                  {i \in 1..Len(pre.elems) : ~Hits(a1, pre.elems[i])})
    /\ (DynKind(a1) = pre.k /\ CountVal(pre, a1) > 0) =>
         /\ CountVal(s, a1) = 0
         /\ Len(s.elems) = Len(pre.elems) - CountVal(pre, a1)

\* The same for sequences whose elements are not themselves sequences.
C1_RemoveOfPlainElements ==
  (op = "Remove" /\ ret = ErrNil /\ NeedleFor(pre, a1) /\ pre.k # "Slice") =>
    /\ IsSeq(s) /\ s.k = pre.k
    /\ IsSubseqAt(s.elems, pre.elems,
                  {i \in 1..Len(pre.elems) : ~Hits(a1, pre.elems[i])})
    /\ Contains(Iface(s), Iface(a1)) = [ok |-> FALSE, err |-> ErrNil]

\* C2: after Concat(&s, x) returns without error, every key absent from s
\* before the call occurs at most once in s, and every key present before
\* occurs as often as before.
C2_ConcatIntroducesNoDuplicate ==
  (op = "Concat" /\ ret = ErrNil) =>
    \A key \in KeysOf(s) :
      IF CountKey(pre, key) = 0 THEN CountKey(s, key) <= 1
      ELSE CountKey(s, key) = CountKey(pre, key)

\* C3: after Unique(&s) returns without error, s is the subsequence of the
\* original made of the first occurrence of each key, in order; every key
\* of the original occurs exactly once; a second Unique changes nothing.
C3_UniqueKeepsFirstOccurrences ==
  (op = "Unique" /\ ret = ErrNil) =>
    /\ IsSeq(s) /\ s.k = pre.k
    /\ IsSubseqAt(s.elems, pre.elems,
                  {i \in 1..Len(pre.elems) :
                     \A j \in 1..(i - 1) : KeyAt(pre, j) # KeyAt(pre, i)})
    /\ \A key \in KeysOf(pre) : CountKey(s, key) = 1
    /\ Unique(TRUE, s) = [s |-> s, err |-> ErrNil]

C3_Witness ==
  /\ op = "Unique" /\ ret = ErrNil
  /\ Len(pre.elems) = 3 /\ Len(s.elems) = 2
  /\ pre.elems[1] # pre.elems[2]
  /\ KeyAt(pre, 1) = KeyAt(pre, 3)

\* C4: Contains(s, n) on a sequence s returns (true, nil) exactly when an
\* element of s equals n or an element of the sequence n, and (false, nil)
\* otherwise; s is not modified.
C4_ContainsIsAnyMatch ==
  (op = "Contains" /\ IsSeq(pre) /\ a1 # Nil) =>
    /\ ret = ErrNil
    /\ found = (\E i \in 1..Len(pre.elems) : Hits(a1, pre.elems[i]))
    /\ s = pre

\* The same for needles that are single values or slices, and sequences
\* whose elements are not themselves sequences.
C4_ContainsOfPlainElements ==
  (op = "Contains" /\ IsSeq(pre) /\ pre.k # "Slice"
     /\ a1.shape \in {"scalar", "slice"}) =>
    /\ ret = ErrNil
    /\ found = (\E i \in 1..Len(pre.elems) : Hits(a1, pre.elems[i]))
    /\ s = pre

\* C5: after Intersect(&s, t) returns without error, for s and t of the
\* same element kind, s is the subsequence of the original made of the
\* elements whose key is a key of t, duplicates kept.
C5_IntersectKeepsKeysOfT ==
  (op = "Intersect" /\ ret = ErrNil /\ pre.k = a1.k) =>
    /\ IsSeq(s) /\ s.k = pre.k
    /\ IsSubseqAt(s.elems, pre.elems,
                  {i \in 1..Len(pre.elems) : KeyAt(pre, i) \in KeysOf(a1)})
    /\ Len(s.elems) <= Len(pre.elems)
    /\ \A i \in 1..Len(s.elems) : KeyAt(s, i) \in KeysOf(a1)

C5_Witness ==
  /\ op = "Intersect" /\ ret = ErrNil /\ pre.k = a1.k
  /\ Len(pre.elems) = 3 /\ Len(s.elems) = 2
  /\ s.elems[1] = s.elems[2]
  /\ pre.elems[2] # pre.elems[1]

\* C6: when a mutating operation returns one of the sentinel errors, the
\* caller's sequence is what it was before the call.
C6_ErrorLeavesSequenceUntouched ==
  (op \in Mutating /\ ret \in Sentinels) => s = pre

\* Remove with a needle of two values, one of which occurs in s, fails
C6_Witness ==
  /\ op = "Remove" /\ ptr /\ ret = ErrNotSameType
  /\ IsSeq(a1) /\ Len(a1.elems) = 2
  /\ \E i \in 1..Len(pre.elems) : pre.elems[i] = a1.elems[1]

\* the argument is no mutable reference, or what is passed is no sequence
ShapeError ==
  \/ op \in Mutating /\ ~ptr
  \/ ~IsSeq(pre)
  \/ op = "Intersect" /\ ~IsSeq(a1)

\* the kind of a single value differs from the sequence's element kind
ValueTypeError ==
  /\ IsSeq(pre)
  /\ \/ op \in {"Remove", "Concat"} /\ ~IsSeq(a1) /\ DynKind(a1) # pre.k
     \/ op = "Replace" /\ DynKind(a2) # pre.k

\* the element kind of an addend sequence differs from the destination's
AddendTypeError ==
  /\ IsSeq(pre)
  /\ op = "Concat" /\ IsSeq(a1) /\ Len(a1.elems) > 0 /\ a1.k # pre.k

\* C7: a call of Contains, Remove, Unique, Intersect, Concat or Replace with
\* a shape error or a type error returns NotAPointer, NotASequence or
\* TypeMismatch, and no such call aborts.
C7_ErrorsAreReturnedNeverPanics ==
  (op \in Mutating \cup {"Contains"}) =>
    /\ (ShapeError \/ ValueTypeError) => ret \in Sentinels
    /\ AddendTypeError => ret # Panic

\* C8: Flatten of anything that is not a non-empty sequence of sequences
\* returns its input and no error, and does not abort.
C8_FlattenPassesThrough ==
  (op = "Flatten" /\ ~IsSeqOfSeqs(pre)) => (ret = ErrNil /\ out = pre)

RECURSIVE ConcatAll(_)
ConcatAll(ss) == IF ss = <<>> THEN <<>> ELSE Head(ss).elems \o ConcatAll(Tail(ss))

\* C9: Flatten of a non-empty sequence of sequences returns, without error,
\* the inner sequences concatenated in order, and leaves its input alone.
C9_FlattenConcatenatesInner ==
  (op = "Flatten" /\ IsSeqOfSeqs(pre)) =>
    /\ ret = ErrNil
    /\ IsSeq(out)
    /\ out.elems = ConcatAll(pre.elems)
    /\ s = pre

\* C10: after Replace(&s, old, new) returns without error s has its length,
\* new where old was and the original element elsewhere; no element equals
\* old unless new = old.
C10_ReplaceOverwritesEveryMatch ==
  (op = "Replace" /\ ret = ErrNil) =>
    /\ Len(s.elems) = Len(pre.elems)
    /\ \A i \in 1..Len(pre.elems) :
         s.elems[i] = IF pre.elems[i] = a1 THEN a2 ELSE pre.elems[i]
    /\ a2 # a1 => CountVal(s, a1) = 0

C10_Witness ==
  /\ op = "Replace" /\ ret = ErrNil /\ a1 # a2
  /\ Len(pre.elems) = 3
  /\ CountVal(pre, a1) = 2 /\ CountVal(s, a2) = 2
  /\ s.elems[2] = pre.elems[2]

====
